---------------------------- MODULE Spec2Model ----------------------------
(***************************************************************************)
(* The outage-announcement pipeline of the walter bot:                     *)
(*   - ElectricityStopsService.get_electricity_stops  (list GET, per       *)
(*     municipality detail POST, dedup, 30 minute cache)                   *)
(*   - WaterStopsService.get_water_stops  (headless browser, parse, cache) *)
(*   - format_water_stops_message / format_electricity_stops_message       *)
(* Time is counted in minutes.  Every await of the source is one step of   *)
(* a call; the code between two awaits is atomic (single event loop).      *)
(***************************************************************************)
EXTENDS Integers, Sequences, FiniteSets, TLC

VARIABLES
    now,          \* datetime.now(), minutes
    cache,        \* self.cache of each service: [some, v]; some = FALSE is None
    cache_time,   \* self.cache_time of each service: [some, t]
    calls,        \* one record per caller: the position and locals of its call
    started,      \* number of get_*_stops() calls started so far
    lastOk,       \* per service: result and write time of the last fetch that succeeded
    lastFailed,   \* per service: the last finished call failed at the top level
    focus,        \* the services the callers of this run call
    fmt,          \* the formatter under test: input records and returned value
    ext,          \* _extract_field under test: cell text, field and returned value
    sent,         \* per service: what the caller sent for the last returned call
    det,          \* _fetch_municipality_details under test: response and returned value
    ai            \* generate_victorian_commentary under test: events, steps and returned value

vars == <<now, cache, cache_time, calls, started, lastOk, lastFailed, focus, fmt, ext, sent, det, ai>>

-----------------------------------------------------------------------------
(* Bounds of the model *)

MaxCalls == 3
MaxNow == 45
TickStep == 15
MaxMunis == 2

(* self.cache_duration = timedelta(minutes=30), both services *)
cache_duration == 30

Services == {"water", "electricity"}
\* the handlers of bot.py that call the services: the scheduled job
\* (send_daily_history) and a command handler (check_water, check_power); the
\* callers of a run are those that have a record in calls
AllCallers == {"daily", "command"}
Callers == DOMAIN calls
\* the number of calls of a run: MaxCalls calls one after the other, or one
\* call by each of the concurrent handlers
CallBudget == IF Callers = AllCallers THEN Cardinality(AllCallers) ELSE MaxCalls

None == [some |-> FALSE, v |-> <<>>]
Some(x) == [some |-> TRUE, v |-> x]
NoTime == [some |-> FALSE, t |-> 0]
At(t) == [some |-> TRUE, t |-> t]

SeqsUpTo(S, n) == UNION {[1..k -> S] : k \in 0..n}

-----------------------------------------------------------------------------
(* Exceptions.  Every failure the network, browser and parse steps can     *)
(* produce is a subclass of Exception.                                     *)

ExceptionKinds == {"ClientError", "AttributeError", "JSONDecodeError",
                   "PlaywrightError", "TimeoutError"}

\* except Exception as e  (top level of get_*_stops)
TopHandlerCatchesOnlyNetwork(e) == e \in {"ClientError", "PlaywrightError"}
TopHandlerCatches(e) == e \in ExceptionKinds

\* except Exception as e  (per municipality, get_electricity_stops)
EntityHandlerCatchesOnlyNetwork(e) == e = "ClientError"
EntityHandlerCatches(e) == e \in ExceptionKinds

\* except json.JSONDecodeError as e  (_fetch_municipality_details)
JsonHandlerCatches(e) == e = "JSONDecodeError"


-----------------------------------------------------------------------------
(* ElectricityStopsService: the data the two HTTP round trips can return.  *)
(* Strings of the feed are ASCII stand-ins: "planirano" is a typedist      *)
(* containing the word for "planned", "avariya" one that does not, "null"  *)
(* a JSON null.  NoCity is a detail object without city_name and cities.   *)

Munis == {"m1", "m2"}
NoCity == ""

\* region_names.get(region_code, region_code) for the only code kept, 'SOF'
SofiaRegion == "Sofia-grad"

\* the possible results of _parse_municipality_ids(html): the names of the
\* <li> entries of region SOF, in page order
MuniLists == SeqsUpTo(Munis, MaxMunis)

\* key/value pairs of the detail JSON object: the counter 'cnt', outages of
\* both kinds, an outage without city_name and cities, an outage whose
\* typedist is null
\* begin_event / end_event of an outage: a time, the key missing from the
\* object, or a JSON null
Missing == "missing"
Null == "null"
\* 'Не е указано'
Placeholder == "Ne e ukazano"

Cnt == [k |-> "cnt", city |-> NoCity, typedist |-> "null",
        begin_event |-> Missing, end_event |-> Missing]
OutageAt(city, typedist, begin_event, end_event) ==
    [k |-> "outage", city |-> city, typedist |-> typedist,
     begin_event |-> begin_event, end_event |-> end_event]
Outage(city, typedist) == OutageAt(city, typedist, "08:00", "16:00")

\* the possible outcomes of one detail POST: the request fails; the body is
\* '', '[]' or '{}'; the body is not JSON; it is JSON but no object; it is an
\* object
DetailResponses ==
    {[kind |-> k, items |-> <<>>] :
        k \in {"error", "empty", "bad_json", "not_mapping"}}
    \cup {[kind |-> "mapping", items |-> s] :
            s \in {<<Cnt>>,
                   <<Cnt, Outage("A", "planirano")>>,
                   <<Outage("A", "avariya")>>,
                   <<Outage(NoCity, "planirano")>>,
                   <<Outage("A", "planirano"), Outage("A", "null")>>}}

\* 'планиран' in type_dist
IsPlanned(typedist) == typedist = "planirano"

\* type_dist.capitalize() if type_dist else 'Неизвестно'
TypeBg(typedist) ==
    CASE typedist = "planirano" -> "Planirano"
      [] typedist = "avariya" -> "Avariya"
      [] OTHER -> "Neizvestno"

\* outage.get(key, default): the default only when the key is missing
GetOrPlaceholderForNull(value, default) ==
    IF value \in {Missing, Null} THEN default ELSE value
GetOr(value, default) == IF value = Missing THEN default ELSE value

\* the dict built for one outage of the detail object
MakeStop(item, muni_name, region) ==
    [location |-> IF item.city # NoCity THEN item.city ELSE muni_name,
     municipality |-> muni_name,
     region |-> region,
     start |-> GetOr(item.begin_event, Placeholder),
     end |-> GetOr(item.end_event, Placeholder),
     category |-> IF IsPlanned(item.typedist) THEN "planned" ELSE "unplanned",
     type_bg |-> TypeBg(item.typedist)]

\* for key, outage in result.items(): ...   Returns [exc, stops]; a null
\* typedist makes outage.get('typedist', '').lower() raise AttributeError.
RECURSIVE ParseItems(_, _, _, _)
ParseItems(items, muni_name, region, acc) ==
    IF items = <<>> THEN [exc |-> "none", stops |-> acc]
    ELSE LET item == Head(items) IN
         IF item.k = "cnt"
         THEN ParseItems(Tail(items), muni_name, region, acc)
         ELSE IF item.typedist = "null"
         THEN [exc |-> "AttributeError", stops |-> <<>>]
         ELSE ParseItems(Tail(items), muni_name, region,
                         Append(acc, MakeStop(item, muni_name, region)))

\* _fetch_municipality_details(session, muni_id, muni_name, region):
\* [exc, stops], exc = "none" when it returns normally
fetch_municipality_details(muni_name, region, resp) ==
    CASE resp.kind = "error" -> [exc |-> "ClientError", stops |-> <<>>]
      [] resp.kind = "empty" -> [exc |-> "none", stops |-> <<>>]
      [] resp.kind = "bad_json" ->
            IF JsonHandlerCatches("JSONDecodeError")
            THEN [exc |-> "none", stops |-> <<>>]
            ELSE [exc |-> "JSONDecodeError", stops |-> <<>>]
      [] resp.kind = "not_mapping" ->
            IF JsonHandlerCatches("AttributeError")
            THEN [exc |-> "none", stops |-> <<>>]
            ELSE [exc |-> "AttributeError", stops |-> <<>>]
      [] OTHER ->
            LET r == ParseItems(resp.items, muni_name, region, <<>>) IN
            IF r.exc # "none" /\ JsonHandlerCatches(r.exc)
            THEN [exc |-> "none", stops |-> <<>>]
            ELSE r

\* key = (stop['location'], stop['start'], stop['end'], stop['category'])
DedupKey(stop) == <<stop.location, stop.start, stop.end, stop.category>>

\* the dedup loop: unique_stops / seen
RECURSIVE DedupKeepLast(_, _, _)
DedupKeepLast(stops, seen, acc) ==
    IF stops = <<>> THEN acc
    ELSE LET s == Head(stops) IN
         IF \E i \in 1..Len(Tail(stops)) : DedupKey(Tail(stops)[i]) = DedupKey(s)
         THEN DedupKeepLast(Tail(stops), seen, acc)
         ELSE DedupKeepLast(Tail(stops), seen, Append(acc, s))
RECURSIVE Dedup(_, _, _)
Dedup(stops, seen, acc) ==
    IF stops = <<>> THEN acc
    ELSE LET s == Head(stops) IN
         IF DedupKey(s) \in seen
         THEN Dedup(Tail(stops), seen, acc)
         ELSE Dedup(Tail(stops), seen \cup {DedupKey(s)}, Append(acc, s))

\* the detail objects of one municipality: up to MaxItems entries, with and
\* without city, of every typedist, with begin_event and end_event present,
\* missing or null
MaxItems == 2
DetailItems ==
    {Cnt} \cup {OutageAt(c, t, b, e) :
                  c \in {"A", NoCity}, t \in {"planirano", "avariya", "null"},
                  b \in {"08:00", Missing, Null}, e \in {"16:00", Missing, Null}}
DetailObjects ==
    {[kind |-> k, items |-> <<>>] :
        k \in {"error", "empty", "bad_json", "not_mapping"}}
    \cup {[kind |-> "mapping", items |-> s] : s \in SeqsUpTo(DetailItems, MaxItems)}

DetIdle == [pc |-> "idle", muni_name |-> "", resp |-> [kind |-> "empty", items |-> <<>>],
            ret |-> [exc |-> "none", stops |-> <<>>]]

\* stops = await self._fetch_municipality_details(session, muni_id, muni_name, region)
FetchDetails ==
    /\ det.pc = "ready"
    /\ det' = [det EXCEPT !.pc = "done",
                          !.ret = fetch_municipality_details(det.muni_name,
                                                             SofiaRegion, det.resp)]
    /\ UNCHANGED <<now, cache, cache_time, calls, started, lastOk, lastFailed,
                   focus, fmt, ext, sent, ai>>

-----------------------------------------------------------------------------
(* WaterStopsService: what _parse_water_stops can return for a rendered    *)
(* page.  Rows of section infrastructureAlertsContent are 'current', rows  *)
(* of sanitaryBackupContent 'planned', current rows first.                 *)

WaterStop(loc, cat) ==
    [location |-> loc, type |-> "Unknown", description |-> "",
     start |-> "08:00", end |-> "16:00", category |-> cat]

WaterPages ==
    {<<>>,
     <<WaterStop("Lozenets", "current")>>,
     <<WaterStop("Lozenets", "planned")>>,
     <<WaterStop("Lozenets", "current"), WaterStop("Mladost", "planned")>>}

-----------------------------------------------------------------------------
(* The calls *)

Idle ==
    [svc |-> "none", pc |-> "idle", munis |-> <<>>, idx |-> 0, stops |-> <<>>,
     posted |-> 0, okStops |-> <<>>, failed |-> {}, result |-> <<>>, raised |-> FALSE, hit |-> FALSE,
     net |-> 0, failedTop |-> FALSE, wrote |-> FALSE, browser |-> "none",
     c0 |-> None, ct0 |-> NoTime, t0 |-> 0, prevOk |-> None, prevOkT |-> NoTime,
     prevFailed |-> FALSE, overlap |-> FALSE, prevAllFailed |-> FALSE]

\* the call of c is between its cache miss and its return statement
InFlight(c) == calls[c].pc \notin {"idle", "done"}

NoneActive == \A c \in Callers : calls[c].pc = "idle"

\* datetime.now() - self.cache_time < self.cache_duration
WithinTtlInclusive(t, ct) == t - ct <= cache_duration
WithinTtl(t, ct) == t - ct < cache_duration

\* if self.cache is not None and self.cache_time:
\*     if datetime.now() - self.cache_time < self.cache_duration:
ElectricityFreshWhenNonEmpty(c, ct, t) ==
    c.some /\ c.v # <<>> /\ ct.some /\ WithinTtl(t, ct.t)
ElectricityFresh(c, ct, t) ==
    c.some /\ ct.some /\ WithinTtl(t, ct.t)

\* if self.cache and self.cache_time:
\*     if datetime.now() - self.cache_time < self.cache_duration:
WaterFresh(c, ct, t) ==
    c.some /\ c.v # <<>> /\ ct.some /\ WithinTtl(t, ct.t)

Fresh(svc) ==
    IF svc = "water"
    THEN WaterFresh(cache[svc], cache_time[svc], now)
    ELSE ElectricityFresh(cache[svc], cache_time[svc], now)

\* leaving "async with async_playwright() as p": stopping the driver ends the
\* browser it launched
PlaywrightExitLeavesOpen(browser) == browser
PlaywrightExit(browser) == IF browser = "open" THEN "closed" ELSE browser

\* an exception e reaches the top level try of get_*_stops
Fail(cr, e) ==
    IF TopHandlerCatches(e)
    THEN [cr EXCEPT !.pc = "done", !.result = <<>>, !.failedTop = TRUE,
                    !.browser = PlaywrightExit(cr.browser)]
    ELSE [cr EXCEPT !.pc = "done", !.raised = TRUE,
                    !.browser = PlaywrightExit(cr.browser)]

\* self.cache = stops; self.cache_time = datetime.now(); return stops
StoreAndReturn(c, stops) ==
    /\ cache' = [cache EXCEPT ![calls[c].svc] = Some(stops)]
    /\ cache_time' = [cache_time EXCEPT ![calls[c].svc] = At(now)]
    /\ lastOk' = [lastOk EXCEPT ![calls[c].svc] =
                     [some |-> TRUE, v |-> stops, t |-> now, allFailed |-> FALSE]]
    /\ calls' = [calls EXCEPT ![c].pc = "done", ![c].result = stops,
                              ![c].wrote = TRUE, ![c].net = calls[c].net + 1]

NoStore == UNCHANGED <<cache, cache_time, lastOk>>

\* the clock advances
Tick ==
    /\ now + TickStep <= MaxNow
    /\ now' = now + TickStep
    /\ UNCHANGED <<cache, cache_time, calls, started, lastOk, lastFailed, focus, fmt, ext, sent, det, ai>>

Begin(c, svc) ==
    [Idle EXCEPT !.svc = svc, !.c0 = cache[svc], !.ct0 = cache_time[svc],
                 !.t0 = now, !.prevOk = [some |-> lastOk[svc].some, v |-> lastOk[svc].v],
                 !.prevOkT = [some |-> lastOk[svc].some, t |-> lastOk[svc].t],
                 !.prevFailed = lastFailed[svc],
                 !.prevAllFailed = lastOk[svc].allFailed]

\* get_*_stops() is called and answers from the cache
CacheHit(c, svc) ==
    /\ calls[c].pc = "idle"
    /\ started < CallBudget
    /\ svc \in focus
    /\ Fresh(svc)
    /\ calls' = [calls EXCEPT ![c] = [Begin(c, svc) EXCEPT !.pc = "done",
                                         !.hit = TRUE, !.result = cache[svc].v]]
    /\ started' = started + 1
    /\ UNCHANGED <<now, cache, cache_time, lastOk, lastFailed, focus, fmt, ext, sent, det, ai>>

\* get_*_stops() is called, the cache does not answer: enter the try block
CacheMiss(c, svc) ==
    /\ calls[c].pc = "idle"
    /\ started < CallBudget
    /\ svc \in focus
    /\ ~Fresh(svc)
    /\ LET others == {d \in Callers \ {c} : InFlight(d) /\ calls[d].svc = svc}
       IN calls' = [d \in Callers |->
                      IF d = c
                      THEN [Begin(c, svc) EXCEPT
                              !.pc = IF svc = "water" THEN "w_launch" ELSE "e_get",
                              !.overlap = others # {}]
                      ELSE IF d \in others
                      THEN [calls[d] EXCEPT !.overlap = TRUE]
                      ELSE calls[d]]
    /\ started' = started + 1
    /\ UNCHANGED <<now, cache, cache_time, lastOk, lastFailed, focus, fmt, ext, sent, det, ai>>

\* async with session.get(self.base_url) as response: html = await response.text()
\* raises (connection error or timeout)
E_GetFailsAndCaches(c) ==
    /\ calls[c].pc = "e_get"
    /\ calls' = [calls EXCEPT ![c] =
                    Fail([calls[c] EXCEPT !.net = calls[c].net + 1], "ClientError")]
    /\ cache' = [cache EXCEPT ![calls[c].svc] = Some(<<>>)]
    /\ cache_time' = [cache_time EXCEPT ![calls[c].svc] = At(now)]
    /\ UNCHANGED <<now, started, lastOk, lastFailed, focus, fmt, ext, sent, det, ai>>
E_GetFails(c) ==
    /\ calls[c].pc = "e_get"
    /\ \E e \in {"ClientError", "TimeoutError"} :
          calls' = [calls EXCEPT ![c] =
                       Fail([calls[c] EXCEPT !.net = calls[c].net + 1], e)]
    /\ NoStore
    /\ UNCHANGED <<now, started, lastFailed, focus, fmt, ext, sent, det, ai>>

\* the list page arrives and names no municipality of the region
E_GetNoMunicipalities(c) ==
    /\ calls[c].pc = "e_get"
    /\ StoreAndReturn(c, <<>>)
    /\ UNCHANGED <<now, started, lastFailed, focus, fmt, ext, sent, det, ai>>

\* the municipality lists a list page can name; a single municipality per
\* page when the handlers run concurrently
MuniChoices ==
    IF Callers = AllCallers THEN {ms \in MuniLists : Len(ms) = 1}
    ELSE MuniLists \ {<<>>}

\* the list page arrives and names municipalities
E_GetMunicipalities(c) ==
    /\ calls[c].pc = "e_get"
    /\ \E ms \in MuniChoices :
          calls' = [calls EXCEPT ![c].pc = "e_post", ![c].munis = ms,
                                 ![c].idx = 1, ![c].stops = <<>>,
                                 ![c].net = calls[c].net + 1]
    /\ NoStore
    /\ UNCHANGED <<now, started, lastFailed, focus, fmt, ext, sent, det, ai>>

\* one turn of "for muni_id, muni_name, region in municipality_ids", and after
\* the last one the dedup, the cache update and the return
E_Post(c) ==
    /\ calls[c].pc = "e_post"
    /\ \E resp \in DetailResponses :
         LET cr == calls[c]
             r == fetch_municipality_details(cr.munis[cr.idx], SofiaRegion, resp)
             stops2 == IF r.exc = "none" THEN cr.stops \o r.stops ELSE cr.stops
             cr2 == [cr EXCEPT !.stops = stops2, !.idx = cr.idx + 1,
                               !.posted = cr.posted + 1,
                               !.failed = IF r.exc = "none" THEN cr.failed
                                          ELSE cr.failed \cup {cr.idx},
                               !.okStops = IF r.exc = "none"
                                           THEN cr.okStops \o r.stops
                                           ELSE cr.okStops,
                               !.net = cr.net + 1]
         IN
         IF r.exc # "none" /\ ~EntityHandlerCatches(r.exc)
         THEN /\ calls' = [calls EXCEPT ![c] = Fail(cr2, r.exc)]
              /\ NoStore
         ELSE IF cr.idx < Len(cr.munis)
         THEN /\ calls' = [calls EXCEPT ![c] = cr2]
              /\ NoStore
         ELSE LET unique_stops == Dedup(stops2, {}, <<>>) IN
              /\ cache' = [cache EXCEPT ![cr.svc] = Some(unique_stops)]
              /\ cache_time' = [cache_time EXCEPT ![cr.svc] = At(now)]
              /\ lastOk' = [lastOk EXCEPT ![cr.svc] =
                               [some |-> TRUE, v |-> unique_stops, t |-> now,
                                allFailed |-> cr2.failed = 1..Len(cr.munis)]]
              /\ calls' = [calls EXCEPT ![c] = [cr2 EXCEPT !.pc = "done",
                               !.result = unique_stops, !.wrote = TRUE]]
    /\ UNCHANGED <<now, started, lastFailed, focus, fmt, ext, sent, det, ai>>

\* one await of the browser sequence: it either completes or raises; an
\* exception inside an inner try is logged and the sequence goes on
WaterAwait(c, from, to, caught, browser2) ==
    /\ calls[c].pc = from
    /\ \E ok \in BOOLEAN :
         IF ok \/ caught
         THEN calls' = [calls EXCEPT ![c].pc = to, ![c].net = calls[c].net + 1,
                          ![c].browser = IF ok THEN browser2 ELSE calls[c].browser]
         ELSE calls' = [calls EXCEPT ![c] =
                          Fail([calls[c] EXCEPT !.net = calls[c].net + 1],
                               "PlaywrightError")]
    /\ NoStore
    /\ UNCHANGED <<now, started, lastFailed, focus, fmt, ext, sent, det, ai>>

\* async_playwright().start(); browser = await p.chromium.launch(headless=True)
W_Launch(c) == WaterAwait(c, "w_launch", "w_page", FALSE, "open")
\* page = await browser.new_page()
W_NewPage(c) == WaterAwait(c, "w_page", "w_goto", FALSE, "open")
\* page.goto(self.url, wait_until='load', timeout=30000)
W_Goto(c) == WaterAwait(c, "w_goto", "w_wait", FALSE, "open")
\* page.wait_for_timeout(3000)
W_Wait(c) == WaterAwait(c, "w_wait", "w_splash", FALSE, "open")
\* page.wait_for_selector('div#divSplashScreenContainer', state='hidden', ...)
W_Splash(c) == WaterAwait(c, "w_splash", "w_expand", TRUE, "open")
\* page.evaluate(...accordion.click()...); page.wait_for_timeout(2000)
W_Expand(c) == WaterAwait(c, "w_expand", "w_settle", TRUE, "open")
\* page.wait_for_timeout(2000)
W_Settle(c) == WaterAwait(c, "w_settle", "w_content", FALSE, "open")
\* html = await page.content()
W_Content(c) == WaterAwait(c, "w_content", "w_close", FALSE, "open")

\* await browser.close() raises
W_CloseFails(c) ==
    /\ calls[c].pc = "w_close"
    /\ calls' = [calls EXCEPT ![c] = Fail(calls[c], "PlaywrightError")]
    /\ NoStore
    /\ UNCHANGED <<now, started, lastFailed, focus, fmt, ext, sent, det, ai>>

\* browser.close() returns and _parse_water_stops(html) raises
W_ParseFails(c) ==
    /\ calls[c].pc = "w_close"
    /\ calls' = [calls EXCEPT ![c] =
                    Fail([calls[c] EXCEPT !.browser = "closed"], "AttributeError")]
    /\ NoStore
    /\ UNCHANGED <<now, started, lastFailed, focus, fmt, ext, sent, det, ai>>

\* browser.close() returns; stops = self._parse_water_stops(html); cache; return
W_CloseAndParseStampsCallTime(c) ==
    /\ calls[c].pc = "w_close"
    /\ \E stops \in WaterPages :
         /\ cache' = [cache EXCEPT !["water"] = Some(stops)]
         /\ cache_time' = [cache_time EXCEPT !["water"] = At(calls[c].t0)]
         /\ lastOk' = [lastOk EXCEPT !["water"] =
                          [some |-> TRUE, v |-> stops, t |-> now,
                           allFailed |-> FALSE]]
         /\ calls' = [calls EXCEPT ![c].pc = "done", ![c].result = stops,
                                   ![c].stops = stops,
                                   ![c].wrote = TRUE, ![c].browser = "closed",
                                   ![c].net = calls[c].net + 1]
    /\ UNCHANGED <<now, started, lastFailed, focus, fmt, ext, sent, det, ai>>
W_CloseAndParse(c) ==
    /\ calls[c].pc = "w_close"
    /\ \E stops \in WaterPages :
         /\ cache' = [cache EXCEPT !["water"] = Some(stops)]
         /\ cache_time' = [cache_time EXCEPT !["water"] = At(now)]
         /\ lastOk' = [lastOk EXCEPT !["water"] =
                          [some |-> TRUE, v |-> stops, t |-> now,
                           allFailed |-> FALSE]]
         /\ calls' = [calls EXCEPT ![c].pc = "done", ![c].result = stops,
                                   ![c].stops = stops,
                                   ![c].wrote = TRUE, ![c].browser = "closed",
                                   ![c].net = calls[c].net + 1]
    /\ UNCHANGED <<now, started, lastFailed, focus, fmt, ext, sent, det, ai>>

\* what the caller sends to the channel for a returned list:
\*   if stops: the formatted messages   else: format_no_stops_message()
\*   except Exception: the fixed apology (a channel.send above raised)
CallerSends(stops, send_ok) ==
    IF ~send_ok THEN "apology"
    ELSE IF stops # <<>> THEN "outages" ELSE "all_clear"

\* stops = await ...get_*_stops() returns to the caller, which sends its
\* messages
Return(c) ==
    /\ calls[c].pc = "done"
    /\ lastFailed' = [lastFailed EXCEPT ![calls[c].svc] = calls[c].failedTop]
    /\ \E send_ok \in BOOLEAN :
          sent' = [sent EXCEPT ![calls[c].svc] =
                      CallerSends(calls[c].result, send_ok)]
    /\ calls' = [calls EXCEPT ![c] = Idle]
    /\ UNCHANGED <<now, cache, cache_time, started, lastOk, focus, fmt, ext, det, ai>>

-----------------------------------------------------------------------------
(* Text.  A string is a sequence of segments: a word (w is the word) or a  *)
(* run of n other characters (w = "").  len(), slicing, upper() and "in"   *)
(* are computed on the segments.                                           *)

Fill(n) == <<[w |-> "", n |-> n]>>
Word(w, n) == <<[w |-> w, n |-> n]>>

RECURSIVE TLen(_)
TLen(text) == IF text = <<>> THEN 0 ELSE Head(text).n + TLen(Tail(text))

\* text[:k]; a word cut by the slice is no longer that word
RECURSIVE Trunc(_, _)
Trunc(text, k) ==
    IF text = <<>> \/ k <= 0 THEN <<>>
    ELSE IF Head(text).n <= k
         THEN <<Head(text)>> \o Trunc(Tail(text), k - Head(text).n)
         ELSE Fill(k)

\* the words that occur in the text
Words(text) == {text[i].w : i \in 1..Len(text)} \ {""}

\* len(str(i))
Digits(i) == IF i < 10 THEN 1 ELSE IF i < 100 THEN 2 ELSE 3

-----------------------------------------------------------------------------
(* Messages.  A message is the sequence of the pieces that were appended   *)
(* to it; a piece carries its length in characters and the words in it.    *)

SoftLimit == 1900

RECURSIVE MsgLen(_)
MsgLen(m) == IF m = <<>> THEN 0 ELSE Head(m).len + MsgLen(Tail(m))

\* word in m
MsgHas(m, word) == \E i \in 1..Len(m) : word \in m[i].has

Piece(kind, cat, num, len, has, body) ==
    [kind |-> kind, cat |-> cat, num |-> num, len |-> len, has |-> has,
     body |-> body]

\* header = "💧 **Water Supply Interruptions**\n\n"
\* header += "_Sofia Water announces the following interruptions:_\n\n"
WaterHeader == Piece("header", "", 0, 88, {}, <<>>)

\* header = "**Electricity Supply Interruptions**\n\n"
\* header += "_ERM Zapad announces the following interruptions:_\n\n"
ElectricityHeader == Piece("header", "", 0, 90, {}, <<>>)

Header(svc) == IF svc = "water" THEN WaterHeader ELSE ElectricityHeader

\* the category rendered first and the one rendered second
FirstCat(svc) == IF svc = "water" THEN "current" ELSE "unplanned"
SecondCat(svc) == "planned"

\* the banner text up to "(": "⚡ **CURRENT STOPS** ", "📋 **PLANNED STOPS** ",
\* "**CURRENT OUTAGES** ", "**PLANNED MAINTENANCE** "
BannerStem(svc, cat) ==
    IF svc = "water"
    THEN IF cat = "current" THEN [len |-> 20, has |-> {"CURRENT"}]
                            ELSE [len |-> 20, has |-> {"PLANNED"}]
    ELSE IF cat = "unplanned" THEN [len |-> 20, has |-> {"CURRENT"}]
                              ELSE [len |-> 24, has |-> {"PLANNED"}]

\* f"... ({len(stops)})\n\n"
CountBanner(svc, cat, n) ==
    Piece("banner", cat, 0, BannerStem(svc, cat).len + 4 + Digits(n),
          BannerStem(svc, cat).has, <<>>)

\* f"... (Part {n})\n\n"
PartBanner(svc, cat, n) ==
    Piece("part", cat, n, BannerStem(svc, cat).len + 9 + Digits(n),
          BannerStem(svc, cat).has, <<>>)

\* location = stop.get('location', ...)[:100]   (water)   [:80] (electricity)
LocationCap(svc) == IF svc = "water" THEN 100 ELSE 80

\* municipality and municipality.upper() not in location.upper()
UpperWord(w) ==
    CASE w = "Mladost" -> "MLADOST"
      [] OTHER -> w
MunicipalityShown(location, municipality) ==
    /\ municipality # <<>>
    /\ ~(\E w \in Words(municipality) :
            UpperWord(w) \in {UpperWord(v) : v \in Words(location)})

\* water:        f"**{i}.** {location}\n   ⏰ {start} → {end}\n\n"
\* electricity:  f"**{i}.** {location}\n   {start} - {end}\n\n"
ShortEntry(svc, i, stop) ==
    LET location == Trunc(stop.location, LocationCap(svc))
        fixed == IF svc = "water" THEN 17 ELSE 15
    IN Piece("entry", stop.category, i,
             fixed + Digits(i) + TLen(location) + TLen(stop.start) + TLen(stop.end),
             Words(location) \cup Words(stop.start) \cup Words(stop.end),
             [location |-> location, context |-> <<>>,
              start |-> stop.start, end |-> stop.end])

\* the entry of the unsplit message; electricity appends ", {municipality}"
\* and " ({region})" to the location
FullEntry(svc, i, stop) ==
    IF svc = "water" THEN ShortEntry(svc, i, stop)
    ELSE LET location == Trunc(stop.location, LocationCap(svc))
             muni == IF MunicipalityShown(location, stop.municipality)
                     THEN Fill(2) \o stop.municipality ELSE <<>>
             region == IF stop.region # <<>>
                       THEN Fill(2) \o stop.region \o Fill(1) ELSE <<>>
             context == muni \o region
         IN Piece("entry", stop.category, i,
                  15 + Digits(i) + TLen(location) + TLen(context)
                     + TLen(stop.start) + TLen(stop.end),
                  Words(location) \cup Words(context)
                     \cup Words(stop.start) \cup Words(stop.end),
                  [location |-> location, context |-> context,
                   start |-> stop.start, end |-> stop.end])

\* [s for s in stops if s.get('category') == cat]
RECURSIVE CategoryStops(_, _)
CategoryStops(stops, cat) ==
    IF stops = <<>> THEN <<>>
    ELSE IF Head(stops).category = cat
         THEN <<Head(stops)>> \o CategoryStops(Tail(stops), cat)
         ELSE CategoryStops(Tail(stops), cat)

\* the message built before the length check: banner and every entry
WholeMessage(svc, cat, stops, withHeader) ==
    (IF withHeader THEN <<Header(svc)>> ELSE <<>>)
    \o <<CountBanner(svc, cat, Len(stops))>>
    \o [i \in 1..Len(stops) |-> FullEntry(svc, i, stops[i])]

\* the number of the part opened after chunk_msg was appended to messages
\*   first category:          len(messages) + 1
\*   water, planned:          len(messages) - len([m for m in messages if 'CURRENT' in m]) + 1
\*   electricity, planned:    len([m for m in messages if 'PLANNED' in m]) + 1
NextPart(svc, cat, messages) ==
    IF cat = FirstCat(svc) THEN Len(messages) + 1
    ELSE IF svc = "water"
    THEN Len(messages)
         - Cardinality({k \in 1..Len(messages) : MsgHas(messages[k], "CURRENT")}) + 1
    ELSE Cardinality({k \in 1..Len(messages) : MsgHas(messages[k], "PLANNED")}) + 1

\* for i, stop in enumerate(stops, 1): ... ; if chunk_msg: messages.append(chunk_msg)
RECURSIVE ChunkLoopDropsOverflow(_, _, _, _, _, _)
ChunkLoopDropsOverflow(svc, cat, stops, i, chunk_msg, messages) ==
    IF i > Len(stops)
    THEN IF chunk_msg # <<>> THEN Append(messages, chunk_msg) ELSE messages
    ELSE LET entry == ShortEntry(svc, i, stops[i]) IN
         IF MsgLen(chunk_msg) + entry.len > SoftLimit
         THEN LET messages2 == Append(messages, chunk_msg) IN
              ChunkLoopDropsOverflow(svc, cat, stops, i + 1,
                  <<PartBanner(svc, cat, NextPart(svc, cat, messages2))>>,
                  messages2)
         ELSE ChunkLoopDropsOverflow(svc, cat, stops, i + 1,
                  Append(chunk_msg, entry), messages)
RECURSIVE ChunkLoop(_, _, _, _, _, _)
ChunkLoop(svc, cat, stops, i, chunk_msg, messages) ==
    IF i > Len(stops)
    THEN IF chunk_msg # <<>> THEN Append(messages, chunk_msg) ELSE messages
    ELSE LET entry == ShortEntry(svc, i, stops[i]) IN
         IF MsgLen(chunk_msg) + entry.len > SoftLimit
         THEN LET messages2 == Append(messages, chunk_msg) IN
              ChunkLoop(svc, cat, stops, i + 1,
                  <<PartBanner(svc, cat, NextPart(svc, cat, messages2)), entry>>,
                  messages2)
         ELSE ChunkLoop(svc, cat, stops, i + 1,
                  Append(chunk_msg, entry), messages)

\* one section: "if <cat>_stops:" ... "else: messages.append(<cat>_msg)"
Section(svc, cat, stops, messages, withHeader) ==
    IF stops = <<>> THEN messages
    ELSE LET whole == WholeMessage(svc, cat, stops, withHeader) IN
         IF MsgLen(whole) > SoftLimit
         THEN ChunkLoop(svc, cat, stops, 1,
                  (IF withHeader THEN <<Header(svc)>> ELSE <<>>)
                     \o <<PartBanner(svc, cat, 1)>>,
                  messages)
         ELSE Append(messages, whole)

\* the messages list before the footer: the first category's section, which
\* carries the header, then the planned section
SectionsPlannedFirst(svc, stops) ==
    LET planned == Section(svc, SecondCat(svc),
                           CategoryStops(stops, SecondCat(svc)), <<>>, FALSE)
    IN Section(svc, FirstCat(svc),
               CategoryStops(stops, FirstCat(svc)), planned, TRUE)
Sections(svc, stops) ==
    LET first == Section(svc, FirstCat(svc),
                         CategoryStops(stops, FirstCat(svc)), <<>>, TRUE)
    IN Section(svc, SecondCat(svc),
               CategoryStops(stops, SecondCat(svc)), first, FALSE)

\* footers = [...]: the lengths of the four closing remarks
FooterLen(svc, k) ==
    IF svc = "water"
    THEN <<34, 37, 41, 19>>[k]
    ELSE <<37, 41, 38, 27>>[k]
Footers == 1..4

\* messages[-1] += random.choice(footers)
WithFooterOnFirst(svc, messages, k) ==
    IF messages = <<>> THEN messages
    ELSE [messages EXCEPT ![1] =
             Append(@, Piece("footer", "", k, FooterLen(svc, k), {}, <<>>))]
WithFooter(svc, messages, k) ==
    IF messages = <<>> THEN messages
    ELSE [messages EXCEPT ![Len(messages)] =
             Append(@, Piece("footer", "", k, FooterLen(svc, k), {}, <<>>))]

\* return messages if len(messages) > 1 else messages[0] if messages else None
ReturnValueDropsSingle(messages) ==
    IF Len(messages) > 1 THEN [kind |-> "list", msgs |-> messages]
    ELSE [kind |-> "None", msgs |-> <<>>]
ReturnValueAlwaysList(messages) ==
    IF messages # <<>> THEN [kind |-> "list", msgs |-> messages]
    ELSE [kind |-> "None", msgs |-> <<>>]
ReturnValue(messages) ==
    IF Len(messages) > 1 THEN [kind |-> "list", msgs |-> messages]
    ELSE IF messages # <<>> THEN [kind |-> "str", msgs |-> messages]
    ELSE [kind |-> "None", msgs |-> <<>>]

\* format_water_stops_message(stops) / format_electricity_stops_message(stops)
\* with footer k drawn by random.choice
format_stops_message(svc, stops, k) ==
    IF stops = <<>> THEN [kind |-> "None", msgs |-> <<>>]
    ELSE ReturnValue(WithFooter(svc, Sections(svc, stops), k))

-----------------------------------------------------------------------------
(* The record lists given to the formatters *)

MaxRecs == 3

\* a short and an over-long location; for electricity an over-long one and
\* one that names the municipality in capitals
LocationTexts(svc) ==
    IF svc = "water" THEN {Fill(8), Fill(150)}
    ELSE {Fill(150), Word("MLADOST", 7)}
\* "08:00"-like times, and fields as long as a feed can make them
StartTexts == {Fill(5), Fill(900), Fill(2000)}
EndText == Fill(5)
MunicipalityText == Word("Mladost", 7)
RegionText == Fill(10)

StopsOf(svc, locs, starts, cats) ==
    IF svc = "water"
    THEN [location : locs, start : starts, end : {EndText}, category : cats]
    ELSE [location : locs, municipality : {MunicipalityText},
          region : {RegionText}, start : starts, end : {EndText},
          category : cats]

\* the categories the fetchers produce
Categories(svc) == {FirstCat(svc), SecondCat(svc)}

FmtIdle == [pc |-> "idle", svc |-> "none", stops |-> <<>>,
            ret |-> [kind |-> "None", msgs |-> <<>>]]

\* format_water_stops_message(stops)
FormatWater ==
    /\ fmt.pc = "ready" /\ fmt.svc = "water"
    /\ \E k \in Footers :
         fmt' = [fmt EXCEPT !.pc = "done",
                            !.ret = format_stops_message("water", fmt.stops, k)]
    /\ UNCHANGED <<now, cache, cache_time, calls, started, lastOk, lastFailed, focus, ext, sent, det, ai>>

\* format_electricity_stops_message(stops)
FormatElectricity ==
    /\ fmt.pc = "ready" /\ fmt.svc = "electricity"
    /\ \E k \in Footers :
         fmt' = [fmt EXCEPT !.pc = "done",
                            !.ret = format_stops_message("electricity", fmt.stops, k)]
    /\ UNCHANGED <<now, cache, cache_time, calls, started, lastOk, lastFailed, focus, ext, sent, det, ai>>

-----------------------------------------------------------------------------
(* WaterStopsService._extract_field.  The text of a table cell is a        *)
(* sequence of tokens: a field label, a blank (" ", any whitespace) or "x" *)
(* (any other character).  The labels stand for the Bulgarian keywords:    *)
(* "Mestopolozhenie:" (location), "Tip:" (type), "Opisanie:" (description),*)
(* "Nachalo:" (start), "Kray:" (end).                                      *)

MaxText == 4

\* the five keywords _parse_water_stops extracts
Labels == <<"Mestopolozhenie:", "Tip:", "Opisanie:", "Nachalo:", "Kray:">>
LabelSet == {Labels[i] : i \in 1..Len(Labels)}

\* field_markers = ['Тип:', 'Описание:', 'Начало:', 'Край:']
field_markers == <<"Tip:", "Opisanie:", "Nachalo:", "Kray:">>

Tokens == LabelSet \cup {" ", "x"}

\* text.find(tok): the index of the first occurrence, 0-based; -1 if none
Find(text, tok) ==
    IF \E i \in 1..Len(text) : text[i] = tok
    THEN (CHOOSE i \in 1..Len(text) :
             text[i] = tok /\ \A j \in 1..(i - 1) : text[j] # tok) - 1
    ELSE -1

\* text[:k]
Prefix(text, k) == SubSeq(text, 1, k)

\* text.split(field_name, 1)[1]
AfterFirst(text, field_name) ==
    SubSeq(text, Find(text, field_name) + 2, Len(text))

\* text.strip()
RECURSIVE LStrip(_)
LStrip(text) ==
    IF text # <<>> /\ Head(text) = " " THEN LStrip(Tail(text)) ELSE text
RECURSIVE RStrip(_)
RStrip(text) ==
    IF text # <<>> /\ text[Len(text)] = " "
    THEN RStrip(SubSeq(text, 1, Len(text) - 1)) ELSE text
Strip(text) == RStrip(LStrip(text))

\* for marker in field_markers:
\*     pos = remaining.find(marker)
\*     if pos != -1 and pos < next_marker_pos: next_marker_pos = pos
RECURSIVE NearestMarker(_, _, _, _)
NearestMarker(remaining, markers, k, next_marker_pos) ==
    IF k > Len(markers) THEN next_marker_pos
    ELSE LET pos == Find(remaining, markers[k])
         IN NearestMarker(remaining, markers, k + 1,
                IF pos # -1 /\ pos < next_marker_pos
                THEN pos ELSE next_marker_pos)

\* _extract_field(text, field_name)
extract_field(text, field_name) ==
    IF Find(text, field_name) = -1 THEN None
    ELSE LET remaining == AfterFirst(text, field_name)
             next_marker_pos ==
                 NearestMarker(remaining, field_markers, 1, Len(remaining))
             field_value == Strip(Prefix(remaining, next_marker_pos))
         IN IF field_value # <<>> THEN Some(field_value) ELSE None

ExtIdle == [pc |-> "idle", text |-> <<>>, field_name |-> "", ret |-> None]

\* location = self._extract_field(text, 'Местоположение:') and the four
\* calls that follow it, one field per call
ExtractField ==
    /\ ext.pc = "ready"
    /\ ext' = [ext EXCEPT !.pc = "done",
                          !.ret = extract_field(ext.text, ext.field_name)]
    /\ UNCHANGED <<now, cache, cache_time, calls, started, lastOk, lastFailed,
                   focus, fmt, sent, det, ai>>

-----------------------------------------------------------------------------
(* AIService.generate_victorian_commentary.  A response of the model is    *)
(* kept as the length of its text and the two places _format_response      *)
(* searches for: the last sentence end and the last space within the first *)
(* 1850 characters of "@here " + text (-1 when there is none).             *)

MaxEvents == 6

max_retries == 3

\* what the model call can raise: errors of the client library, and
\* IndexError from response.choices[0] on an empty choices list
AiExceptionKinds == {"APIConnectionError", "RateLimitError", "APITimeoutError",
                     "IndexError"}

\* except Exception as e  (generate_victorian_commentary)
RetryHandlerCatchesOnlyRateLimit(e) == e = "RateLimitError"
RetryHandlerCatches(e) == e \in AiExceptionKinds

Response(kind, len, sentence, space) ==
    [kind |-> kind, len |-> len, sentence |-> sentence, space |-> space]

NoResponse == Response("absent", 0, -1, -1)

\* response.choices[0].message.content: None, or a text
Responses ==
    { Response("no_content", 0, -1, -1),
      Response("text", 300, 280, 295),
      Response("text", 1894, 1800, 1840),
      Response("text", 1895, 1700, 1840),
      Response("text", 2400, 1500, 1800),
      Response("text", 2400, -1, 1500) }

\* len("@here ")
MentionLen == 6
\* len("\n\n_[Commentary continues, but Discord message limit reached. ...]_")
TruncationNoteLen == 116
FormatLimit == 1900
truncate_point == 1850
BoundaryFloor == 1500

\* _format_response(response, events): the length of the returned text and
\* whether it was cut
format_response(response) ==
    LET formatted == MentionLen
                       + (IF response.kind = "no_content" THEN 4  \* "None"
                          ELSE response.len)
    IN IF formatted > FormatLimit
       THEN LET last_sentence == response.sentence
                last_space == response.space
                kept == IF last_sentence > BoundaryFloor THEN last_sentence + 1
                        ELSE IF last_space > BoundaryFloor THEN last_space
                        ELSE truncate_point
            IN [len |-> kept + TruncationNoteLen, truncated |-> TRUE]
       ELSE [len |-> formatted, truncated |-> FALSE]

FallbackCap == 5
ClosingRemarks == 1..5

Min(a, b) == IF a < b THEN a ELSE b

\* _generate_fallback(events): the number of events listed (events[:5]) and
\* the closing remark drawn
generate_fallback(n, remark) ==
    [kind |-> "fallback", len |-> 0, truncated |-> FALSE,
     shown |-> Min(n, FallbackCap), closing |-> remark]

FormattedReturn(response) ==
    [kind |-> "formatted", len |-> format_response(response).len,
     truncated |-> format_response(response).truncated,
     shown |-> 0, closing |-> 0]

NoReturn == [kind |-> "none", len |-> 0, truncated |-> FALSE,
             shown |-> 0, closing |-> 0]

PromptStyles == {"standard", "pooter", "jerome"}

RECURSIVE Pow2(_)
Pow2(k) == IF k = 0 THEN 1 ELSE 2 * Pow2(k - 1)

\* the steps of one call, in order: model calls and sleeps
CallStep(ok, response) == [ev |-> "call", ok |-> ok, response |-> response, base |-> 0]
SleepStep(base) == [ev |-> "sleep", ok |-> FALSE, response |-> NoResponse, base |-> base]

AiIdle == [pc |-> "idle", n |-> 0, single |-> FALSE, style |-> "none",
           attempt |-> 0, log |-> <<>>, ret |-> NoReturn, raised |-> FALSE]

\* if isinstance(events, dict): events = [events]
\* prompt_style = random.choice([...]); prompt = self._build_prompt(events, prompt_style)
\* for attempt in range(max_retries):   (first turn)
AI_Start ==
    /\ ai.pc = "ready"
    /\ \E style \in PromptStyles :
          ai' = [ai EXCEPT !.pc = "call",
                           !.n = IF ai.single THEN 1 ELSE ai.n,
                           !.single = FALSE,
                           !.style = style, !.attempt = 0]
    /\ UNCHANGED <<now, cache, cache_time, calls, started, lastOk, lastFailed,
                   focus, fmt, ext, sent, det>>

\* response = await self._call_openai(prompt) returns;
\* return self._format_response(response, events)
AI_CallReturns ==
    /\ ai.pc = "call"
    /\ \E response \in Responses :
          ai' = [ai EXCEPT !.pc = "done",
                           !.log = Append(ai.log, CallStep(TRUE, response)),
                           !.ret = FormattedReturn(response)]
    /\ UNCHANGED <<now, cache, cache_time, calls, started, lastOk, lastFailed,
                   focus, fmt, ext, sent, det>>

\* await self._call_openai(prompt) raises e
\*   except Exception as e:
\*       if attempt == max_retries - 1: return self._generate_fallback(events)
\*       wait_time = (2 ** attempt) + random.uniform(0, 1)
AI_CallRaises ==
    /\ ai.pc = "call"
    /\ \E e \in AiExceptionKinds, remark \in ClosingRemarks :
         LET log2 == Append(ai.log, CallStep(FALSE, NoResponse)) IN
         IF ~RetryHandlerCatches(e)
         THEN ai' = [ai EXCEPT !.pc = "done", !.log = log2, !.raised = TRUE]
         ELSE IF ai.attempt = max_retries - 1
         THEN ai' = [ai EXCEPT !.pc = "done", !.log = log2,
                               !.ret = generate_fallback(ai.n, remark)]
         ELSE ai' = [ai EXCEPT !.pc = "sleep", !.log = log2]
    /\ UNCHANGED <<now, cache, cache_time, calls, started, lastOk, lastFailed,
                   focus, fmt, ext, sent, det>>

\* await asyncio.sleep(wait_time), then the next turn of the for loop
AI_Sleep ==
    /\ ai.pc = "sleep"
    /\ ai' = [ai EXCEPT !.pc = "call", !.attempt = ai.attempt + 1,
                        !.log = Append(ai.log, SleepStep(Pow2(ai.attempt)))]
    /\ UNCHANGED <<now, cache, cache_time, calls, started, lastOk, lastFailed,
                   focus, fmt, ext, sent, det>>

-----------------------------------------------------------------------------
(* Specifications *)

Init ==
    /\ now = 0
    /\ cache = [s \in Services |-> None]
    /\ cache_time = [s \in Services |-> NoTime]
    /\ calls = [c \in {"daily"} |-> Idle]
    /\ started = 0
    /\ lastOk = [s \in Services |-> [some |-> FALSE, v |-> <<>>, t |-> 0, allFailed |-> FALSE]]
    /\ lastFailed = [s \in Services |-> FALSE]
    /\ focus \in {{s} : s \in Services}
    /\ fmt = FmtIdle
    /\ ext = ExtIdle
    /\ sent = [s \in Services |-> "none"]
    /\ det = DetIdle
    /\ ai = AiIdle

Next ==
    \/ Tick
    \/ \E c \in Callers, svc \in Services : NoneActive /\ CacheHit(c, svc)
    \/ \E c \in Callers, svc \in Services : NoneActive /\ CacheMiss(c, svc)
    \/ \E c \in Callers : E_GetFails(c)
    \/ \E c \in Callers : E_GetNoMunicipalities(c)
    \/ \E c \in Callers : E_GetMunicipalities(c)
    \/ \E c \in Callers : E_Post(c)
    \/ \E c \in Callers : W_Launch(c)
    \/ \E c \in Callers : W_NewPage(c)
    \/ \E c \in Callers : W_Goto(c)
    \/ \E c \in Callers : W_Wait(c)
    \/ \E c \in Callers : W_Splash(c)
    \/ \E c \in Callers : W_Expand(c)
    \/ \E c \in Callers : W_Settle(c)
    \/ \E c \in Callers : W_Content(c)
    \/ \E c \in Callers : W_CloseFails(c)
    \/ \E c \in Callers : W_ParseFails(c)
    \/ \E c \in Callers : W_CloseAndParse(c)
    \/ \E c \in Callers : Return(c)

Spec == Init /\ [][Next]_vars

\* the handlers as tasks of one event loop: the scheduled job and a command
\* handler may each call a service while the other is suspended at an await
InitConcurrent ==
    /\ now = 0
    /\ cache = [s \in Services |-> None]
    /\ cache_time = [s \in Services |-> NoTime]
    /\ calls = [c \in AllCallers |-> Idle]
    /\ started = 0
    /\ lastOk = [s \in Services |-> [some |-> FALSE, v |-> <<>>, t |-> 0, allFailed |-> FALSE]]
    /\ lastFailed = [s \in Services |-> FALSE]
    /\ focus \in {{s} : s \in Services}
    /\ fmt = FmtIdle
    /\ ext = ExtIdle
    /\ sent = [s \in Services |-> "none"]
    /\ det = DetIdle
    /\ ai = AiIdle

NextConcurrent ==
    \/ Tick
    \/ \E c \in Callers, svc \in Services : CacheHit(c, svc)
    \/ \E c \in Callers, svc \in Services : CacheMiss(c, svc)
    \/ \E c \in Callers : E_GetFails(c)
    \/ \E c \in Callers : E_GetNoMunicipalities(c)
    \/ \E c \in Callers : E_GetMunicipalities(c)
    \/ \E c \in Callers : E_Post(c)
    \/ \E c \in Callers : W_Launch(c)
    \/ \E c \in Callers : W_NewPage(c)
    \/ \E c \in Callers : W_Goto(c)
    \/ \E c \in Callers : W_Wait(c)
    \/ \E c \in Callers : W_Splash(c)
    \/ \E c \in Callers : W_Expand(c)
    \/ \E c \in Callers : W_Settle(c)
    \/ \E c \in Callers : W_Content(c)
    \/ \E c \in Callers : W_CloseFails(c)
    \/ \E c \in Callers : W_ParseFails(c)
    \/ \E c \in Callers : W_CloseAndParse(c)
    \/ \E c \in Callers : Return(c)

SpecConcurrent == InitConcurrent /\ [][NextConcurrent]_vars

FetchIdle ==
    /\ now = 0
    /\ cache = [s \in Services |-> None]
    /\ cache_time = [s \in Services |-> NoTime]
    /\ calls = [c \in {"daily"} |-> Idle]
    /\ started = 0
    /\ lastOk = [s \in Services |-> [some |-> FALSE, v |-> <<>>, t |-> 0, allFailed |-> FALSE]]
    /\ lastFailed = [s \in Services |-> FALSE]
    /\ focus = {}
    /\ ext = ExtIdle
    /\ sent = [s \in Services |-> "none"]
    /\ det = DetIdle
    /\ ai = AiIdle

\* a formatter is given a list of records of its source's two categories
InitFormat ==
    /\ FetchIdle
    /\ \E svc \in Services :
          fmt \in {[FmtIdle EXCEPT !.pc = "ready", !.svc = svc, !.stops = st] :
                      st \in SeqsUpTo(StopsOf(svc, LocationTexts(svc), StartTexts,
                                              Categories(svc)), MaxRecs)}

NextFormat == FormatWater \/ FormatElectricity

SpecFormat == InitFormat /\ [][NextFormat]_vars

\* a formatter is given a list of records whose category is any string
InitFormatAny ==
    /\ FetchIdle
    /\ \E svc \in Services :
          fmt \in {[FmtIdle EXCEPT !.pc = "ready", !.svc = svc, !.stops = st] :
                      st \in SeqsUpTo(StopsOf(svc, LocationTexts(svc), {Fill(5)},
                                              {"current", "planned", "unplanned"}),
                                      MaxRecs)}

SpecFormatAny == InitFormatAny /\ [][NextFormat]_vars

\* locations that hold a word of the section banners
WordLocationTexts == {Fill(8), Word("CURRENT", 7), Word("PLANNED", 7)}

\* a formatter is given records whose location may hold a banner word and
\* whose times are long enough to split a section
InitFormatWords ==
    /\ FetchIdle
    /\ \E svc \in Services :
          fmt \in {[FmtIdle EXCEPT !.pc = "ready", !.svc = svc, !.stops = st] :
                      st \in SeqsUpTo(StopsOf(svc, WordLocationTexts,
                                              {Fill(5), Fill(900)},
                                              Categories(svc)), MaxRecs)}

SpecFormatWords == InitFormatWords /\ [][NextFormat]_vars

\* _fetch_municipality_details is given the response of one detail POST
InitDetails ==
    /\ now = 0
    /\ cache = [s \in Services |-> None]
    /\ cache_time = [s \in Services |-> NoTime]
    /\ calls = [c \in {"daily"} |-> Idle]
    /\ started = 0
    /\ lastOk = [s \in Services |-> [some |-> FALSE, v |-> <<>>, t |-> 0, allFailed |-> FALSE]]
    /\ lastFailed = [s \in Services |-> FALSE]
    /\ focus = {}
    /\ fmt = FmtIdle
    /\ ext = ExtIdle
    /\ sent = [s \in Services |-> "none"]
    /\ det \in {[DetIdle EXCEPT !.pc = "ready", !.muni_name = m, !.resp = r] :
                  m \in Munis, r \in DetailObjects}
    /\ ai = AiIdle

NextDetails == FetchDetails

SpecDetails == InitDetails /\ [][NextDetails]_vars

\* the state in which no call has been made and nothing was formatted
FetchIdleNoExt ==
    /\ now = 0
    /\ cache = [s \in Services |-> None]
    /\ cache_time = [s \in Services |-> NoTime]
    /\ calls = [c \in {"daily"} |-> Idle]
    /\ started = 0
    /\ lastOk = [s \in Services |-> [some |-> FALSE, v |-> <<>>, t |-> 0, allFailed |-> FALSE]]
    /\ lastFailed = [s \in Services |-> FALSE]
    /\ focus = {}
    /\ fmt = FmtIdle
    /\ sent = [s \in Services |-> "none"]
    /\ det = DetIdle
    /\ ai = AiIdle

\* _extract_field is given the text of a cell and one of the five keywords
InitExtract ==
    /\ FetchIdleNoExt
    /\ ext \in {[ExtIdle EXCEPT !.pc = "ready", !.text = t, !.field_name = f] :
                  t \in SeqsUpTo(Tokens, MaxText), f \in LabelSet}

NextExtract == ExtractField

SpecExtract == InitExtract /\ [][NextExtract]_vars

\* generate_victorian_commentary is given one event or a list of events
InitAI ==
    /\ now = 0
    /\ cache = [s \in Services |-> None]
    /\ cache_time = [s \in Services |-> NoTime]
    /\ calls = [c \in {"daily"} |-> Idle]
    /\ started = 0
    /\ lastOk = [s \in Services |-> [some |-> FALSE, v |-> <<>>, t |-> 0, allFailed |-> FALSE]]
    /\ lastFailed = [s \in Services |-> FALSE]
    /\ focus = {}
    /\ fmt = FmtIdle
    /\ ext = ExtIdle
    /\ sent = [s \in Services |-> "none"]
    /\ det = DetIdle
    /\ ai \in {[AiIdle EXCEPT !.pc = "ready", !.n = n, !.single = FALSE] :
                 n \in 1..MaxEvents}
             \cup {[AiIdle EXCEPT !.pc = "ready", !.n = 0, !.single = TRUE]}

NextAI ==
    \/ AI_Start
    \/ AI_CallReturns
    \/ AI_CallRaises
    \/ AI_Sleep

SpecAI == InitAI /\ [][NextAI]_vars

-----------------------------------------------------------------------------
(* Properties of get_electricity_stops and get_water_stops *)

Done(c) == calls[c].pc = "done"
Active(c) == calls[c].pc # "idle"

\* C1: get_electricity_stops() and get_water_stops() never raise: whatever
\* the network, browser and parse steps do, the call ends by returning a
\* list, and the list is empty when the top-level fetch failed.
C1_NeverRaises ==
    \A c \in Callers :
        Done(c) => /\ ~calls[c].raised
                   /\ calls[c].failedTop => calls[c].result = <<>>

\* a call that did network work, failed at the top level and returned []
C1_Witness ==
    \E c \in Callers :
        Done(c) /\ calls[c].failedTop /\ calls[c].net > 0 /\ calls[c].result = <<>>

\* C2: after a call that fetched successfully, every further call made less
\* than 30 minutes later returns that call's result unchanged.
C2_CacheFreshness ==
    \A c \in Callers :
        (Done(c) /\ calls[c].prevOk.some
                 /\ calls[c].t0 - calls[c].prevOkT.t < cache_duration)
        => calls[c].result = calls[c].prevOk.v

\* C3: after a call whose fetch succeeded with an empty list, a further call
\* within the 30 minutes is answered from the cache without any network or
\* browser round trip.
C3_EmptyResultsCached ==
    \A c \in Callers :
        (Active(c) /\ calls[c].prevOk.some /\ calls[c].prevOk.v = <<>>
                   /\ calls[c].t0 - calls[c].prevOkT.t < cache_duration)
        => calls[c].hit /\ calls[c].net = 0

\* C4: a call that fails at the list-page / navigation stage returns [] and
\* leaves cache and cache_time as they were before the call, and the call
\* after it attempts the network again.
C4_FailureBypassesCache ==
    \A c \in Callers :
        /\ (Done(c) /\ calls[c].failedTop)
           => /\ calls[c].result = <<>>
              /\ cache[calls[c].svc] = calls[c].c0
              /\ cache_time[calls[c].svc] = calls[c].ct0
        /\ (Active(c) /\ calls[c].prevFailed) => ~calls[c].hit

\* a call that follows a failed call, with an older entry still in the cache,
\* and is itself on its way to the network
C4_Witness ==
    \E c \in Callers :
        /\ calls[c].prevFailed /\ calls[c].pc \in {"e_post", "w_goto"}
        /\ calls[c].c0.some

\* C5: a cache entry is used only while now - cache_time < 30 minutes; from
\* now - cache_time >= 30 minutes on the next call fetches afresh, and on
\* success replaces both the cached list and cache_time.
C5_TtlExpiry ==
    \A c \in Callers :
        /\ (Active(c) /\ calls[c].hit)
           => /\ calls[c].ct0.some
              /\ calls[c].t0 - calls[c].ct0.t < cache_duration
              /\ calls[c].result = calls[c].c0.v
        /\ (Active(c) /\ calls[c].ct0.some
                      /\ calls[c].t0 - calls[c].ct0.t >= cache_duration)
           => ~calls[c].hit
        /\ (Done(c) /\ calls[c].wrote)
           => /\ cache[calls[c].svc] = Some(calls[c].result)
              /\ cache_time[calls[c].svc].some
              /\ cache_time[calls[c].svc].t >= calls[c].t0
              /\ cache_time[calls[c].svc].t <= now

\* a call made exactly 30 minutes after the cache was written, which fetched
\* and replaced the entry
C5_Witness ==
    \E c \in Callers :
        /\ Done(c) /\ calls[c].wrote /\ calls[c].ct0.some /\ calls[c].c0.v # <<>>
        /\ calls[c].t0 - calls[c].ct0.t = cache_duration
        /\ cache_time[calls[c].svc] # calls[c].ct0
        /\ cache[calls[c].svc] # calls[c].c0

\* the indices of the records that are the first with their key
FirstIdx(stops) ==
    {i \in 1..Len(stops) :
        \A j \in 1..(i - 1) : DedupKey(stops[j]) # DedupKey(stops[i])}

\* the records of stops at the indices I, in increasing order of index
AtIndices(stops, I) ==
    [k \in 1..Cardinality(I) |->
        stops[CHOOSE i \in I : Cardinality({j \in I : j <= i}) = k]]

C7_EntityFailureIsolated ==
    \A c \in Callers :
        (Done(c) /\ calls[c].svc = "electricity" /\ calls[c].munis # <<>>)
        => /\ calls[c].posted = Len(calls[c].munis)
           /\ ~calls[c].failedTop /\ ~calls[c].raised
           /\ calls[c].result =
                AtIndices(calls[c].okStops, FirstIdx(calls[c].okStops))

\* the first municipality failed, the second was still asked and its record
\* is returned
C7_Witness ==
    \E c \in Callers :
        /\ Done(c) /\ calls[c].svc = "electricity"
        /\ calls[c].failed = {1} /\ calls[c].posted = 2
        /\ Len(calls[c].result) = 1

-----------------------------------------------------------------------------
(* Properties of format_water_stops_message and                            *)
(* format_electricity_stops_message                                        *)

HardLimit == 2000

Formatted == fmt.pc = "done"
Chunks == fmt.ret.msgs

\* the entries of all chunks, in order
RECURSIVE EntriesOf(_)
EntriesOf(msgs) ==
    IF msgs = <<>> THEN <<>>
    ELSE SelectSeq(Head(msgs), LAMBDA piece : piece.kind = "entry")
         \o EntriesOf(Tail(msgs))

NonEmptyResult ==
    /\ fmt.ret.kind # "None"
    /\ Chunks # <<>>
    /\ \A k \in 1..Len(Chunks) : MsgLen(Chunks[k]) > 0

\* C8 as stated: for every non-empty list of records, whatever their category
\* values, the result is at least one non-empty chunk.
C8_NeverEmptyForAnyCategory ==
    (Formatted /\ fmt.stops # <<>>) => NonEmptyResult

\* C8 amended: for every list holding at least one record of one of the
\* source's two categories, the result is at least one non-empty chunk.
C8_NeverEmptyForKnownCategory ==
    (Formatted /\ \E i \in 1..Len(fmt.stops) :
                     fmt.stops[i].category \in Categories(fmt.svc))
    => NonEmptyResult

\* a list with a record of a foreign category and one of a known category
\* was rendered to a single message
C8_Witness ==
    /\ Formatted /\ fmt.ret.kind = "str"
    /\ \E i, j \in 1..Len(fmt.stops) :
          /\ fmt.stops[i].category \notin Categories(fmt.svc)
          /\ fmt.stops[j].category \in Categories(fmt.svc)

\* C9: every input record is rendered exactly once: the entries of all
\* chunks, in order, are the records of the first category in input order
\* then those of the planned category in input order, each numbered by its
\* place in its category.
C9_EveryRecordOnce ==
    Formatted =>
        LET es == EntriesOf(Chunks)
            inCat(c) == SelectSeq(fmt.stops, LAMBDA r : r.category = c)
            firsts == inCat(FirstCat(fmt.svc))
            want == firsts \o inCat(SecondCat(fmt.svc))
        IN /\ Len(es) = Len(fmt.stops)
           /\ Len(es) = Len(want)
           /\ \A k \in 1..Len(es) :
                 /\ es[k].cat = want[k].category
                 /\ es[k].body.location
                      = Trunc(want[k].location, LocationCap(fmt.svc))
                 /\ es[k].body.start = want[k].start
                 /\ es[k].body.end = want[k].end
                 /\ es[k].num = IF k <= Len(firsts) THEN k ELSE k - Len(firsts)

\* three records of both categories, rendered over several chunks
C9_Witness ==
    /\ Formatted /\ fmt.ret.kind = "list" /\ Len(fmt.stops) = 3
    /\ \E i, j \in 1..3 : fmt.stops[i].category # fmt.stops[j].category
    /\ \E k \in 1..Len(Chunks) :
          Len(SelectSeq(Chunks[k], LAMBDA piece : piece.kind = "entry")) = 2

\* C10: every returned chunk, with header, banner, entries and footer, is at
\* most 2000 characters long.
C10_HardCap ==
    Formatted => \A k \in 1..Len(Chunks) : MsgLen(Chunks[k]) <= HardLimit

\* the length of a chunk without the header and footer additions
RECURSIVE ContentLen(_)
ContentLen(m) ==
    IF m = <<>> THEN 0
    ELSE (IF Head(m).kind \in {"header", "footer"} THEN 0 ELSE Head(m).len)
         + ContentLen(Tail(m))

\* the summed length of the numbered entries of the records
RECURSIVE EntriesSum(_, _, _)
EntriesSum(svc, stops, i) ==
    IF i > Len(stops) THEN 0
    ELSE ShortEntry(svc, i, stops[i]).len + EntriesSum(svc, stops, i + 1)

OneCategory ==
    \E cat \in Categories(fmt.svc) :
        \A i \in 1..Len(fmt.stops) : fmt.stops[i].category = cat

\* C11: for records of one category whose entries sum to more than 1900
\* characters the result has at least 2 chunks, and no returned chunk is
\* longer than 1900 characters once header and footer are left out.
C11_Chunking ==
    (Formatted /\ OneCategory /\ EntriesSum(fmt.svc, fmt.stops, 1) > SoftLimit)
    => /\ Len(Chunks) >= 2
       /\ \A k \in 1..Len(Chunks) : ContentLen(Chunks[k]) <= SoftLimit

\* the pieces of the given kind in all chunks, in order
RECURSIVE PiecesOf(_, _)
PiecesOf(msgs, kind) ==
    IF msgs = <<>> THEN <<>>
    ELSE SelectSeq(Head(msgs), LAMBDA piece : piece.kind = kind)
         \o PiecesOf(Tail(msgs), kind)

LastChunk == Chunks[Len(Chunks)]

\* C12: every non-empty result carries exactly one footer of the pool, at the
\* end of the last chunk; no other chunk holds a footer.
C12_FooterPlacement ==
    (Formatted /\ fmt.ret.kind # "None")
    => /\ Chunks # <<>>
       /\ LastChunk[Len(LastChunk)].kind = "footer"
       /\ LastChunk[Len(LastChunk)].num \in Footers
       /\ LastChunk[Len(LastChunk)].len
            = FooterLen(fmt.svc, LastChunk[Len(LastChunk)].num)
       /\ Len(PiecesOf(Chunks, "footer")) = 1

\* a result of several chunks whose last chunk ends with the footer
C12_Witness ==
    /\ Formatted /\ fmt.ret.kind = "list" /\ Len(Chunks) >= 2
    /\ LastChunk[Len(LastChunk)].kind = "footer"
    /\ Len(SelectSeq(Chunks[1], LAMBDA piece : piece.kind = "entry")) >= 1

\* C13: in the output every entry of the first category (current, unplanned)
\* precedes every planned entry, whatever the order of the input list.
C13_CategoryOrdering ==
    Formatted =>
        LET es == EntriesOf(Chunks)
        IN \A i, j \in 1..Len(es) :
              (es[i].cat = SecondCat(fmt.svc) /\ es[j].cat = FirstCat(fmt.svc))
              => j < i

\* the input lists a planned record before one of the first category, and
\* both were rendered
C13_Witness ==
    /\ Formatted
    /\ \E i, j \in 1..Len(fmt.stops) :
          /\ i < j
          /\ fmt.stops[i].category = SecondCat(fmt.svc)
          /\ fmt.stops[j].category = FirstCat(fmt.svc)
    /\ Len(EntriesOf(Chunks)) = Len(fmt.stops)

\* C14: for every non-empty record list the first chunk starts with the
\* source's header, and no later chunk holds the header.
C14_HeaderPlacement ==
    (Formatted /\ fmt.stops # <<>>)
    => /\ Chunks # <<>>
       /\ Chunks[1] # <<>>
       /\ Chunks[1][1] = Header(fmt.svc)
       /\ Len(PiecesOf(Chunks, "header")) = 1

\* the number of chunks format_*_stops_message produced for its input
ChunkCount ==
    IF fmt.stops = <<>> THEN 0 ELSE Len(Sections(fmt.svc, fmt.stops))

\* C15: the shape of the returned value follows the chunk count: None for
\* the empty list, a single string for one chunk, a list of two or more
\* strings for two or more chunks.
C15_ReturnShape ==
    Formatted =>
        /\ fmt.stops = <<>> => fmt.ret.kind = "None"
        /\ ChunkCount = 1 => (fmt.ret.kind = "str" /\ Len(Chunks) = 1)
        /\ ChunkCount >= 2 => (fmt.ret.kind = "list" /\ Len(Chunks) = ChunkCount)
        /\ fmt.ret.kind = "list" => Len(Chunks) >= 2
        /\ fmt.ret.kind = "str" => Len(Chunks) = 1
        /\ fmt.ret.kind = "None" => Chunks = <<>>

\* several records of one category that fit one chunk, returned as a string
C15_Witness ==
    /\ Formatted /\ Len(fmt.stops) >= 2 /\ ChunkCount = 1
    /\ fmt.ret.kind = "str"

-----------------------------------------------------------------------------
(* Properties of _extract_field *)

Extracted == ext.pc = "done"

\* the returned value, with None read as the empty text
ValueOf(ret) == IF ret.some THEN ret.v ELSE <<>>

\* the position in remaining of the nearest label other than field_name, or
\* len(remaining) when there is none
NearestOther(remaining, field_name) ==
    LET P == {Find(remaining, l) : l \in LabelSet \ {field_name}} \ {-1}
    IN IF P = {} THEN Len(remaining)
       ELSE CHOOSE p \in P : \A q \in P : p <= q

\* the text after the first field_name up to the nearest other label, trimmed
UpToNearestOther(text, field_name) ==
    LET remaining == AfterFirst(text, field_name)
    IN Strip(Prefix(remaining, NearestOther(remaining, field_name)))

\* C16: for each of the five labels, the value returned is the text after the
\* first occurrence of the label up to the nearest of the other four labels,
\* or to the end of the text, trimmed.
C16_NearestOtherLabel ==
    (Extracted /\ Find(ext.text, ext.field_name) # -1)
    => ValueOf(ext.ret) = UpToNearestOther(ext.text, ext.field_name)

\* C17: when the label occurs again after its first occurrence, the second
\* occurrence does not end the value: the value still runs to the nearest
\* other label or to the end of the text.
C17_NoSelfMatch ==
    (Extracted /\ Find(ext.text, ext.field_name) # -1
               /\ Find(AfterFirst(ext.text, ext.field_name), ext.field_name) # -1)
    => ValueOf(ext.ret) = UpToNearestOther(ext.text, ext.field_name)

\* C18: for every way of reading the text as prefix + label + value +
\* nextlabel + suffix, value holding no label and nextlabel being another
\* label, the field extracted for label is value trimmed, and None when that
\* is empty; the field is None when the label does not occur.
C18_RoundTrip ==
    Extracted =>
        /\ \A i, j \in 1..Len(ext.text) :
              (/\ i < j
               /\ ext.text[i] = ext.field_name
               /\ ext.text[j] \in LabelSet \ {ext.field_name}
               /\ \A k \in (i + 1)..(j - 1) : ext.text[k] \notin LabelSet)
              => LET value == Strip(SubSeq(ext.text, i + 1, j - 1))
                 IN ext.ret = IF value = <<>> THEN None ELSE Some(value)
        /\ Find(ext.text, ext.field_name) = -1 => ext.ret = None

-----------------------------------------------------------------------------
(* Properties of the browser session and of the callers *)

C20_ApologyOnFailure ==
    \A s \in Services :
        /\ (sent[s] # "none" /\ lastFailed[s]) => sent[s] = "apology"
        /\ sent[s] = "all_clear" => ~lastFailed[s]

-----------------------------------------------------------------------------
(* Properties of concurrent calls *)

\* C21: two calls on one service that both miss the cache and overlap both
\* go to the network, each returns the list it fetched itself, each writes
\* the cache when its fetch succeeds, and the cache always holds the list
\* together with the timestamp of the call that wrote last.
C21_LastWriteWins ==
    /\ \A c \in Callers :
          (Done(c) /\ calls[c].overlap)
          => /\ ~calls[c].hit
             /\ calls[c].net > 0
             /\ (~calls[c].failedTop /\ ~calls[c].raised) => calls[c].wrote
             /\ calls[c].wrote
                => calls[c].result
                     = IF calls[c].svc = "water" THEN calls[c].stops
                       ELSE AtIndices(calls[c].stops, FirstIdx(calls[c].stops))
    /\ \A s \in Services :
          /\ cache[s].some = lastOk[s].some
          /\ cache_time[s].some = lastOk[s].some
          /\ lastOk[s].some
             => /\ cache[s] = Some(lastOk[s].v)
                /\ cache_time[s] = At(lastOk[s].t)

\* two overlapping calls have both written, at different times and with
\* different lists, and the cache holds the later one's list and timestamp
C21_Witness ==
    \E c, d \in Callers :
        /\ c # d /\ Done(c) /\ Done(d)
        /\ calls[c].overlap /\ calls[d].overlap
        /\ calls[c].wrote /\ calls[d].wrote
        /\ calls[c].result # calls[d].result
        /\ cache[calls[c].svc] = Some(calls[d].result)
        /\ cache_time[calls[c].svc] = At(now)
        /\ now > calls[c].t0

\* C22: at most one fetch per source is in flight at any time: two
\* get_water_stops() fetch sequences never overlap, and two
\* get_electricity_stops() fetch sequences never overlap.
C22_OneFetchInFlight ==
    \A c, d \in Callers :
        (c # d /\ InFlight(c) /\ InFlight(d)) => calls[c].svc # calls[d].svc

-----------------------------------------------------------------------------
(* Further properties of the formatters *)

\* the numbers of the "(Part n)" banners of a category, in chunk order
PartNumbers(cat) ==
    LET ps == SelectSeq(PiecesOf(Chunks, "part"), LAMBDA piece : piece.cat = cat)
    IN [k \in 1..Len(ps) |-> ps[k].num]

\* C23: the chunks of a split category carry the banners Part 1, Part 2, ...,
\* Part k in order, starting at 1 for each category, whatever the other
\* category produced and whatever the text of the records.
C23_PartNumbering ==
    Formatted =>
        \A cat \in Categories(fmt.svc) :
            \A k \in 1..Len(PartNumbers(cat)) : PartNumbers(cat)[k] = k

\* the outages of the detail object given to _fetch_municipality_details
DetailOutages == SelectSeq(det.resp.items, LAMBDA item : item.k # "cnt")

\* C25: every record emitted by _fetch_municipality_details has a start and
\* an end that are not null: where begin_event or end_event is missing or
\* null the record holds the placeholder.
C25_PlaceholderForMissingTimes ==
    (det.pc = "done" /\ det.ret.exc = "none" /\ det.resp.kind = "mapping")
    => /\ Len(det.ret.stops) = Len(DetailOutages)
       /\ \A k \in 1..Len(det.ret.stops) :
             /\ det.ret.stops[k].start # Null
             /\ det.ret.stops[k].end # Null
             /\ det.ret.stops[k].start
                  = GetOrPlaceholderForNull(DetailOutages[k].begin_event, Placeholder)
             /\ det.ret.stops[k].end
                  = GetOrPlaceholderForNull(DetailOutages[k].end_event, Placeholder)

\* the records in the order of rendering: first category, then planned
RenderOrder ==
    SelectSeq(fmt.stops, LAMBDA r : r.category = FirstCat(fmt.svc))
    \o SelectSeq(fmt.stops, LAMBDA r : r.category = SecondCat(fmt.svc))

\* C24: every entry of format_electricity_stops_message, in a split section
\* as in an unsplit one, is its number, the location cut to 80 characters
\* and the municipality when the location does not already hold it: the
\* entry of a record is the same text on both paths.
C24_EntryContext ==
    (Formatted /\ fmt.svc = "electricity")
    => LET es == EntriesOf(Chunks)
       IN /\ Len(es) = Len(RenderOrder)
          /\ \A k \in 1..Len(es) :
                es[k] = FullEntry("electricity", es[k].num, RenderOrder[k])

\* the entries of one chunk
ChunkEntries(m) == SelectSeq(m, LAMBDA piece : piece.kind = "entry")

\* C27: every returned chunk holds at least one complete entry: the splitting
\* loop never emits a chunk made of a header and a banner alone, and every
\* entry lies whole in one chunk.
C27_EveryChunkHasAnEntry ==
    Formatted =>
        /\ \A k \in 1..Len(Chunks) : ChunkEntries(Chunks[k]) # <<>>
        /\ Len(EntriesOf(Chunks)) = Len(RenderOrder)
        /\ \A k \in 1..Len(RenderOrder) :
              /\ EntriesOf(Chunks)[k].body.start = RenderOrder[k].start
              /\ EntriesOf(Chunks)[k].body.end = RenderOrder[k].end

-----------------------------------------------------------------------------
(* Further properties of get_electricity_stops *)

\* C26: get_electricity_stops() writes the cache whenever the list page was
\* fetched, also when every detail request failed: then [] is cached with
\* the time of the write, and a call within the next 30 minutes returns []
\* from the cache without any network round trip.
C26_AllEntitiesFailedIsCached ==
    \A c \in Callers :
        calls[c].svc = "electricity" =>
            /\ (Done(c) /\ ~calls[c].hit /\ ~calls[c].failedTop /\ ~calls[c].raised)
               => calls[c].wrote
            /\ (Done(c) /\ calls[c].wrote /\ calls[c].munis # <<>>
                        /\ calls[c].failed = 1..Len(calls[c].munis))
               => /\ calls[c].result = <<>>
                  /\ cache["electricity"] = Some(<<>>)
                  /\ cache_time["electricity"].some
                  /\ cache_time["electricity"].t >= calls[c].t0
                  /\ lastOk["electricity"].allFailed
            /\ (Active(c) /\ calls[c].prevOk.some /\ calls[c].prevAllFailed
                          /\ calls[c].t0 - calls[c].prevOkT.t < cache_duration)
               => /\ calls[c].hit
                  /\ calls[c].net = 0
                  /\ calls[c].result = <<>>

\* a call answered from the cache with [] after a call whose two detail
\* requests both failed
C26_Witness ==
    \E c \in Callers :
        /\ Done(c) /\ calls[c].svc = "electricity" /\ calls[c].hit
        /\ calls[c].prevAllFailed /\ calls[c].result = <<>>
        /\ calls[c].t0 > calls[c].prevOkT.t

-----------------------------------------------------------------------------
(* Properties of generate_victorian_commentary *)

\* the places of the model calls in the steps of the call
ModelCalls == {k \in 1..Len(ai.log) : ai.log[k].ev = "call"}

\* C28: generate_victorian_commentary ends with a string and never raises
\* when the model call fails: at most 3 model calls are made, a wait follows
\* every failed call but the last and nothing else, the first call that
\* succeeds ends the loop and its formatted response is returned, and after
\* 3 failed calls the fallback text is returned.
C28_BoundedRetries ==
    /\ Cardinality(ModelCalls) <= 3
    /\ \A k \in 1..Len(ai.log) :
          ai.log[k].ev = "sleep" =>
             /\ k > 1 /\ ai.log[k - 1].ev = "call" /\ ~ai.log[k - 1].ok
             /\ ai.pc = "done" => k < Len(ai.log)
    /\ ai.pc = "done" =>
          /\ ~ai.raised
          /\ ai.ret.kind \in {"formatted", "fallback"}
          /\ ai.log # <<>> /\ ai.log[Len(ai.log)].ev = "call"
          /\ \A k \in ModelCalls :
                k < Len(ai.log) => ~ai.log[k].ok /\ ai.log[k + 1].ev = "sleep"
          /\ IF ai.log[Len(ai.log)].ok
             THEN ai.ret = FormattedReturn(ai.log[Len(ai.log)].response)
             ELSE /\ Cardinality(ModelCalls) = 3
                  /\ ai.ret.kind = "fallback"
                  /\ ai.ret.shown = Min(ai.n, 5)

\* three model calls failed, two waits lay between them, and the fallback
\* text was returned
C28_Witness ==
    /\ ai.pc = "done" /\ ai.ret.kind = "fallback"
    /\ Len(ai.log) = 5
    /\ ai.log[2].ev = "sleep" /\ ai.log[4].ev = "sleep"
    /\ ~ai.log[5].ok

=============================================================================
